---- MODULE Spec2Model ----
(***************************************************************************)
(* Model of wcag_focus_visible_checker.py: main and its exit status, the   *)
(* keyboard-focus traversal of check_focus_visibility, the batch loop of   *)
(* process_focus_results, the response decoding of analyze_focus_batch     *)
(* and the browser-session lifecycle (setup_driver / finally); and of the  *)
(* process_focus_results of the second source variant.                     *)
(*                                                                         *)
(* The browser and the classification service are the environment: what    *)
(* the page focuses on each Tab press, whether a driver call raises and    *)
(* what text the service returns are chosen nondeterministically.          *)
(***************************************************************************)
EXTENDS Integers, Sequences, FiniteSets, TLC

VARIABLES
    argc,                        \* len(sys.argv) (line 499)
    exit_code,                   \* exit status of the process (NotExited: still running)
    pc,                          \* position in main and check_focus_visibility
    page,                        \* kind of page behind the url
    driver,                      \* browser session: "none", "live", "quit", "quit_failed"
    temp_dir,                    \* temporary profile directory: "none", "exists", "removed"
    tab_index,                   \* step counter (line 166)
    previously_focused_elements, \* set of signatures seen (line 167)
    focus_results,               \* records collected (line 158)
    element_xpath,               \* locator computed in the last step (lines 193-196)
    element_signature,           \* signature computed in the last step (line 199)
    batches,                     \* process_focus_results: list of batches (line 269)
    batch_idx,                   \* number of batches already handled (line 273)
    all_analyzed_results,        \* aggregate of decoded results (line 271)
    report,                      \* final_report (lines 301-309)
    errors,                      \* origins of the exceptions raised so far (empty: none)
    \* ---- history variables (observations of the run, not read by the code) ----
    focus_seq,                   \* elements focused after each Tab press, in order
    tabs_sent,                   \* Tab key events dispatched
    after_shots,                 \* "after" screenshots taken
    locator_failed,              \* did generate_xpath raise in the last step
    calls,                       \* batch numbers passed to analyze_focus_batch, in order
    service_calls,               \* batch numbers for which the service was requested
    returned                     \* per handled batch: what analyze_focus_batch gave back

vars == <<argc, exit_code, pc, page, driver, temp_dir, tab_index, previously_focused_elements,
          focus_results, element_xpath, element_signature, batches, batch_idx,
          all_analyzed_results, report, errors, focus_seq, tabs_sent, after_shots,
          locator_failed, calls, service_calls, returned>>

-----------------------------------------------------------------------------
(* Program constants *)

max_tabs == 100

batch_size == 5

(* Bounds of the exploration *)

\* locator resolution may be made to fail only in the first MaxFaultTab steps
MaxFaultTab == 3

\* most records for which the replies of the service are varied (for longer
\* runs the service gives the nominal answer)
MaxRecords == 7

\* most records handed to process_focus_results when it is explored on its own
MaxProcessRecords == 26

\* longest arbitrary element list in a service response
MaxRespLen == 2

-----------------------------------------------------------------------------
(* The page: DOM nodes that can take focus *)

Node(tag, id, class, path) == [tag |-> tag, id |-> id, class |-> class, path |-> path]

\* two links that differ only in position, a button with an id
StaticNodes ==
    { Node("A", "", "nav", "/html/body/a[1]"),
      Node("A", "", "nav", "/html/body/a[2]"),
      Node("BUTTON", "go", "", "/html/body/button[1]") }

\* a node whose id is regenerated on every focus change
FreshNode(t) == Node("INPUT", "g" \o ToString(t), "", "/html/body/input[1]")

\* document.body: what document.activeElement is when nothing can take focus;
\* getPathTo returns '/html/body' for it (lines 241-242)
BodyNode == Node("BODY", "", "", "/html/body")

Pages == {"static", "dynamic", "empty"}

\* process_focus_results explored on its own, with no browser behind it
NoPage == "none"

\* nodes the next Tab press can focus
Focusable ==
    IF page = "static" THEN StaticNodes
    ELSE IF page = "empty" THEN {BodyNode}
    ELSE {FreshNode(tabs_sent + 1)} \cup
         (IF focus_seq = <<>> THEN {} ELSE {focus_seq[Len(focus_seq)].node})

-----------------------------------------------------------------------------
(* Traversal helpers *)

\* getPathTo: by id when the node has one, else the structural path
generate_xpath(n) ==
    IF n.id /= "" THEN "//*[@id=\"" \o n.id \o "\"]" ELSE n.path

\* a handler that leaves the locator empty instead of the sentinel
LocatorOrEmpty(n, fails) == IF fails THEN "" ELSE generate_xpath(n)

\* try: generate_xpath(...) except: "Unknown"
LocatorOrSentinel(n, fails) == IF fails THEN "Unknown" ELSE generate_xpath(n)

\* a signature that leaves the locator out
SignatureWithoutLocator(n, xpath) == n.tag \o "_" \o n.id \o "_" \o n.class

\* f"{element_tag}_{element_id}_{element_class}_{element_xpath}"
Signature(n, xpath) == n.tag \o "_" \o n.id \o "_" \o n.class \o "_" \o xpath

\* the bound tested one step too late
LoopContinuesInclusive(ti) == ti <= max_tabs

\* while tab_index < max_tabs
LoopContinues(ti) == ti < max_tabs

\* a loop without the repeat test
IsRepeatNever(sig, seen) == FALSE

\* the membership test made after the signature was added to the set
IsRepeatAfterAdd(sig, seen) == sig \in seen \cup {sig}

\* if element_signature in previously_focused_elements: break
IsRepeat(sig, seen) == sig \in seen

\* records numbered from 1
ElementInfoOneBased(ti, n, xpath) ==
    [tab_index |-> ti + 1, element_tag |-> n.tag, element_id |-> n.id,
     element_class |-> n.class, element_xpath |-> xpath]

\* element_info
ElementInfo(ti, n, xpath) ==
    [tab_index |-> ti, element_tag |-> n.tag, element_id |-> n.id,
     element_class |-> n.class, element_xpath |-> xpath]

LocatorMayFail == tab_index < MaxFaultTab

-----------------------------------------------------------------------------
(* process_focus_results helpers *)

Min(a, b) == IF a < b THEN a ELSE b

\* a partition that keeps only the full batches
BatchesFullOnly(rs) ==
    [k \in 1..(Len(rs) \div batch_size) |->
        SubSeq(rs, (k - 1) * batch_size + 1, k * batch_size)]

\* [focus_results[i:i+batch_size] for i in range(0, len(focus_results), batch_size)]
Batches(rs) ==
    LET starts == {i \in 0..(Len(rs) - 1) : i % batch_size = 0}
        n == Cardinality(starts)
    IN [k \in 1..n |->
          SubSeq(rs, (k - 1) * batch_size + 1, Min(k * batch_size, Len(rs)))]

NoReport ==
    [made |-> FALSE, total_focusable_elements |-> 0, visible_focus_elements |-> 0,
     invisible_focus_elements |-> 0, visible_elements |-> <<>>,
     invisible_elements |-> <<>>, wcag_2_4_7_compliant |-> FALSE]

-----------------------------------------------------------------------------
(* The classification service and analyze_focus_batch *)

\* one entry of the decoded "elements" list: is 'analysis' present and a mapping,
\* and what analysis['focus_visible'] holds
Elem(analysis, fv) == [analysis |-> analysis, focus_visible |-> fv]

ElemShapes ==
    { Elem("mapping", "true"),     \* judged visible
      Elem("mapping", "false"),    \* judged not visible
      Elem("mapping", "absent"),   \* 'analysis' without 'focus_visible'
      Elem("absent", "absent"),    \* no 'analysis' field
      Elem("scalar", "absent") }   \* 'analysis' is not a mapping

SeqsUpTo(S, n) == UNION {[1..k -> S] : k \in 0..n}

\* what one classification attempt meets: a failure before the request is sent,
\* a failed request, or a response text described by the position of its first
\* '{', of its last '}' (-1: none) and by what json.loads makes of the slice
Reply(kind, first_open, last_close, decoded, elements) ==
    [kind |-> kind, first_open |-> first_open, last_close |-> last_close,
     decoded |-> decoded, elements |-> elements]

FailingReplies ==
    { Reply("build_error", -1, -1, "invalid", <<>>),
      Reply("service_error", -1, -1, "invalid", <<>>),
      Reply("text", -1, -1, "invalid", <<>>),          \* prose only
      Reply("text", 0, -1, "invalid", <<>>),           \* '{' never closed
      Reply("text", 0, 9, "invalid", <<>>),            \* braces, not JSON
      Reply("text", 0, 9, "no_elements", <<>>) }       \* JSON without 'elements'

ElementsReply(es) == Reply("text", 0, 9, "elements", es)

\* the answer one expects: every record of the batch judged visible
NominalReply(batch) == ElementsReply([i \in 1..Len(batch) |-> Elem("mapping", "true")])

ArbitraryReplies(batch) ==
    FailingReplies \cup {NominalReply(batch)}
        \cup {ElementsReply(es) : es \in SeqsUpTo(ElemShapes, MaxRespLen)}

\* within a whole run: the nominal answer, a judgement "not visible", both ways
\* a batch fails, and an answer the categorisation cannot read
BasicReplies(batch) ==
    { NominalReply(batch),
      ElementsReply(<<Elem("mapping", "false")>>),
      Reply("build_error", -1, -1, "invalid", <<>>),
      Reply("service_error", -1, -1, "invalid", <<>>),
      ElementsReply(<<Elem("scalar", "absent")>>) }

Replies(batch) ==
    IF Len(focus_results) > MaxRecords THEN {NominalReply(batch)}
    ELSE IF page = NoPage THEN ArbitraryReplies(batch)
    ELSE BasicReplies(batch)

Raised == [status |-> "raise", elements |-> <<>>]

ReturnedNone == [status |-> "none", elements |-> <<>>]

ReturnedList(es) == [status |-> "list", elements |-> es]

\* does analyze_focus_batch reach client.messages.create
ServiceRequested(reply) == reply.kind /= "build_error"

\* a decoder that rejects the whole list when an entry has no 'analysis'
ParseResponseValidating(reply) ==
    IF reply.first_open /= -1 /\ reply.last_close + 1 > reply.first_open
       /\ reply.decoded = "elements"
       /\ \A i \in 1..Len(reply.elements) : reply.elements[i].analysis /= "absent"
    THEN ReturnedList(reply.elements)
    ELSE ReturnedNone

\* lines 464-494: slice from the first '{' to the last '}', decode, take 'elements'
ParseResponse(reply) ==
    LET start_idx == reply.first_open
        end_idx == reply.last_close + 1
    IN IF start_idx /= -1 /\ end_idx /= -1
       THEN IF end_idx > start_idx /\ reply.decoded /= "invalid"
            THEN IF reply.decoded = "elements"
                 THEN ReturnedList(reply.elements)
                 ELSE ReturnedNone
            ELSE ReturnedNone            \* json.JSONDecodeError
       ELSE ReturnedNone

analyze_focus_batch(reply) ==
    IF reply.kind = "build_error" THEN Raised
    ELSE IF reply.kind = "service_error" THEN ReturnedNone
    ELSE ParseResponse(reply)

\* a batch loop that takes its batch off the front of the caller's list
RecordsConsumed(rs) == SubSeq(rs, Min(batch_size, Len(rs)) + 1, Len(rs))

\* lines 269 and 324-335: the batches are slices (copies) of focus_results and
\* analyze_focus_batch only reads the fields of its records into fresh dicts
RecordsAfterBatch(rs) == rs

\* lines 275-283: the effect of one batch on the aggregate
ExtendResults(all, r) ==
    IF r.status = "list" /\ r.elements /= <<>> THEN all \o r.elements ELSE all

\* a loop that tries a batch again until it yields a list
NextBatchIdxRetrying(idx, r) == IF r.status = "list" THEN idx + 1 ELSE idx

\* for batch_idx, batch in enumerate(batches): every batch is visited once
NextBatchIdx(idx, r) == idx + 1

\* a batch loop without the try/except
BatchErrorEscapes == FALSE

\* except Exception (line 281): an exception of analyze_focus_batch is contained
BatchErrorContained == TRUE

-----------------------------------------------------------------------------
(* Categorisation and the report (lines 285-311) *)

\* 'analysis' not in result: continue
Skipped(e) == e.analysis = "absent"

\* result['analysis'].get(...) raises when 'analysis' is not a mapping
CategorizeRaises(all) == \E i \in 1..Len(all) : all[i].analysis = "scalar"

\* a missing 'focus_visible' taken for a visible focus
FocusVisibleByDefault(e) == e.focus_visible /= "false"

\* result['analysis'].get('focus_visible', False)
FocusVisible(e) == e.focus_visible = "true"

VisibleOf(all) == SelectSeq(all, LAMBDA e : ~Skipped(e) /\ FocusVisible(e))

InvisibleOf(all) == SelectSeq(all, LAMBDA e : ~Skipped(e) /\ ~FocusVisible(e))

\* "total_focusable_elements": len(all_analyzed_results)
TotalOf(all) == Len(all)

\* a verdict that asks for every counted element to be judged visible
CompliantIfAllVisible(all) == Len(VisibleOf(all)) = TotalOf(all)

\* "wcag_2_4_7_compliant": len(invisible_focus_elements) == 0
Compliant(all) == Len(InvisibleOf(all)) = 0

MakeReport(all) ==
    [made |-> TRUE,
     total_focusable_elements |-> TotalOf(all),
     visible_focus_elements |-> Len(VisibleOf(all)),
     invisible_focus_elements |-> Len(InvisibleOf(all)),
     visible_elements |-> VisibleOf(all),
     invisible_elements |-> InvisibleOf(all),
     wcag_2_4_7_compliant |-> Compliant(all)]

-----------------------------------------------------------------------------
\* len(sys.argv) counts the program name: 2 is one url argument
ArgCounts == 1..3

\* exit_code while the process has not exited
NotExited == -1

Init ==
    /\ argc \in ArgCounts
    /\ exit_code = NotExited
    /\ pc = "main"
    /\ page \in Pages
    /\ driver = "none"
    /\ temp_dir = "none"
    /\ tab_index = 0
    /\ previously_focused_elements = {}
    /\ focus_results = <<>>
    /\ element_xpath = ""
    /\ element_signature = ""
    /\ batches = <<>>
    /\ batch_idx = 0
    /\ all_analyzed_results = <<>>
    /\ report = NoReport
    /\ errors = {}
    /\ focus_seq = <<>>
    /\ tabs_sent = 0
    /\ after_shots = 0
    /\ locator_failed = FALSE
    /\ calls = <<>>
    /\ service_calls = <<>>
    /\ returned = <<>>

main_vars == <<argc, exit_code>>

traversal_vars == <<tab_index, previously_focused_elements, focus_results,
                    element_xpath, element_signature, focus_seq, tabs_sent,
                    after_shots, locator_failed>>

process_vars == <<batches, batch_idx, all_analyzed_results, report, calls,
                  service_calls, returned>>

(* main, lines 498-508: argument check, then the call of check_focus_visibility *)

\* len(sys.argv) != 2: usage message, sys.exit(1)
MainUsage ==
    /\ pc = "main"
    /\ argc /= 2
    /\ exit_code' = 1
    /\ pc' = "exited"
    /\ UNCHANGED <<argc, page, driver, temp_dir, errors, traversal_vars, process_vars>>

MainCalls ==
    /\ pc = "main"
    /\ argc = 2
    /\ pc' = "setup"
    /\ UNCHANGED <<main_vars, page, driver, temp_dir, errors, traversal_vars,
                   process_vars>>

(* setup_driver, lines 46-86 and 125-139 *)

\* tempfile.mkdtemp raises: nothing was created; the error is re-raised (line 139)
SetupFailsBeforeTempDir ==
    /\ pc = "setup"
    /\ pc' = "done"
    /\ errors' = errors \cup {"setup"}
    /\ UNCHANGED <<main_vars, page, driver, temp_dir, traversal_vars, process_vars>>

\* webdriver.Chrome raises after mkdtemp: re-raised (line 139), outside the
\* try/finally that begins on line 141
SetupFailsAtBrowserStart ==
    /\ pc = "setup"
    /\ temp_dir' = "exists"
    /\ pc' = "done"
    /\ errors' = errors \cup {"setup"}
    /\ UNCHANGED <<main_vars, page, driver, traversal_vars, process_vars>>

SetupDriver ==
    /\ pc = "setup"
    /\ temp_dir' = "exists"
    /\ driver' = "live"
    /\ pc' = "navigate"
    /\ UNCHANGED <<main_vars, page, errors, traversal_vars, process_vars>>

(* lines 142-167: navigation, page load, focus reset, loop initialisation *)

Navigate ==
    /\ pc = "navigate"
    /\ pc' = "traverse"
    /\ tab_index' = 0
    /\ previously_focused_elements' = {}
    /\ focus_results' = <<>>
    /\ UNCHANGED <<main_vars, page, driver, temp_dir, errors, element_xpath, element_signature,
                   focus_seq, tabs_sent, after_shots, locator_failed, process_vars>>

NavigateFails ==
    /\ pc = "navigate"
    /\ pc' = "finally"
    /\ errors' = errors \cup {"navigation"}
    /\ UNCHANGED <<main_vars, page, driver, temp_dir, traversal_vars, process_vars>>

\* return process_focus_results(focus_results, ...): lines 268-271
EnterProcess(rs) ==
    /\ pc' = "process"
    /\ batches' = Batches(rs)
    /\ batch_idx' = 0
    /\ all_analyzed_results' = <<>>
    /\ UNCHANGED <<report, calls, service_calls, returned>>

-----------------------------------------------------------------------------
(* The traversal loop, lines 170-226: one action per way an iteration ends *)

\* the iteration reaches line 199 with node n focused
StepReaches(n, fails) ==
    /\ pc = "traverse"
    /\ LoopContinues(tab_index)
    /\ n \in Focusable
    /\ fails => LocatorMayFail
    /\ tabs_sent' = tabs_sent + 1
    /\ element_xpath' = LocatorOrSentinel(n, fails)
    /\ element_signature' = Signature(n, element_xpath')
    /\ locator_failed' = fails
    /\ focus_seq' = Append(focus_seq, [node |-> n, xpath |-> element_xpath'])

\* lines 204-226: a new signature is recorded
TabAppend ==
    \E n \in Focusable, fails \in BOOLEAN :
        /\ StepReaches(n, fails)
        /\ ~IsRepeat(element_signature', previously_focused_elements)
        /\ previously_focused_elements' =
               previously_focused_elements \cup {element_signature'}
        /\ after_shots' = after_shots + 1
        /\ focus_results' =
               Append(focus_results, ElementInfo(tab_index, n, element_xpath'))
        /\ tab_index' = tab_index + 1
        /\ UNCHANGED <<main_vars, pc, page, driver, temp_dir, errors, process_vars>>

\* lines 200-202 and 229: a seen signature ends the loop
TabCycle ==
    \E n \in Focusable, fails \in BOOLEAN :
        /\ StepReaches(n, fails)
        /\ IsRepeat(element_signature', previously_focused_elements)
        /\ EnterProcess(focus_results)
        /\ UNCHANGED <<main_vars, page, driver, temp_dir, errors, tab_index,
                       previously_focused_elements, focus_results, after_shots>>

\* the "before" screenshot (line 172) or the Tab key (line 175) raises
StepFailsBeforeFocus ==
    /\ pc = "traverse"
    /\ LoopContinues(tab_index)
    /\ pc' = "finally"
    /\ errors' = errors \cup {"traversal"}
    /\ UNCHANGED <<main_vars, page, driver, temp_dir, traversal_vars, process_vars>>

\* an attribute failure that is noted but lets the run go on to classification
AttributeReadSwallowed ==
    /\ pc = "traverse"
    /\ LoopContinues(tab_index)
    /\ tabs_sent' = tabs_sent + 1
    /\ errors' = errors \cup {"attribute"}
    /\ EnterProcess(focus_results)
    /\ UNCHANGED <<main_vars, page, driver, temp_dir, tab_index, previously_focused_elements,
                   focus_results, element_xpath, element_signature, focus_seq,
                   after_shots, locator_failed>>

\* reading an attribute of document.activeElement raises (lines 179-187)
AttributeReadFails ==
    /\ pc = "traverse"
    /\ LoopContinues(tab_index)
    /\ tabs_sent' = tabs_sent + 1
    /\ pc' = "finally"
    /\ errors' = errors \cup {"attribute"}
    /\ UNCHANGED <<main_vars, page, driver, temp_dir, tab_index, previously_focused_elements,
                   focus_results, element_xpath, element_signature, focus_seq,
                   after_shots, locator_failed, process_vars>>

\* the "after" screenshot (line 207) raises: the signature is already in the set
AfterShotFails ==
    \E n \in Focusable, fails \in BOOLEAN :
        /\ StepReaches(n, fails)
        /\ ~IsRepeat(element_signature', previously_focused_elements)
        /\ previously_focused_elements' =
               previously_focused_elements \cup {element_signature'}
        /\ pc' = "finally"
        /\ errors' = errors \cup {"traversal"}
        /\ UNCHANGED <<main_vars, page, driver, temp_dir, tab_index, focus_results,
                       after_shots, process_vars>>

\* the while condition fails (line 170), then line 229
LoopExit ==
    /\ pc = "traverse"
    /\ ~LoopContinues(tab_index)
    /\ EnterProcess(focus_results)
    /\ UNCHANGED <<main_vars, page, driver, temp_dir, errors, traversal_vars>>

-----------------------------------------------------------------------------
(* process_focus_results, lines 273-311 *)

\* one iteration of the batch loop
AnalyzeBatch ==
    /\ pc = "process"
    /\ batch_idx < Len(batches)
    /\ \E reply \in Replies(batches[batch_idx + 1]) :
         LET r == analyze_focus_batch(reply) IN
           /\ calls' = Append(calls, batch_idx + 1)
           /\ service_calls' = IF ServiceRequested(reply)
                               THEN Append(service_calls, batch_idx + 1)
                               ELSE service_calls
           /\ returned' = Append(returned, r)
           /\ IF r.status = "raise" /\ ~BatchErrorContained
              THEN /\ pc' = "finally"
                   /\ errors' = errors \cup {"classification"}
                   /\ UNCHANGED <<batch_idx, all_analyzed_results>>
              ELSE /\ all_analyzed_results' = ExtendResults(all_analyzed_results, r)
                   /\ batch_idx' = NextBatchIdx(batch_idx, r)
                   /\ UNCHANGED <<pc, errors>>
    /\ focus_results' = RecordsAfterBatch(focus_results)
    /\ UNCHANGED <<main_vars, page, driver, temp_dir, tab_index,
                   previously_focused_elements, element_xpath, element_signature,
                   focus_seq, tabs_sent, after_shots, locator_failed, batches, report>>

\* lines 285-311 after the last batch: the report is built and returned
Categorize ==
    /\ pc = "process"
    /\ batch_idx = Len(batches)
    /\ ~CategorizeRaises(all_analyzed_results)
    /\ report' = MakeReport(all_analyzed_results)
    /\ pc' = "finally"
    /\ UNCHANGED <<main_vars, page, driver, temp_dir, errors, traversal_vars, batches, batch_idx,
                   all_analyzed_results, calls, service_calls, returned>>

\* line 295 raises on an 'analysis' that is not a mapping
CategorizeFails ==
    /\ pc = "process"
    /\ batch_idx = Len(batches)
    /\ CategorizeRaises(all_analyzed_results)
    /\ errors' = errors \cup {"classification"}
    /\ pc' = "finally"
    /\ UNCHANGED <<main_vars, page, driver, temp_dir, traversal_vars, process_vars>>

-----------------------------------------------------------------------------
(* finally: driver.quit(); cleanup_temp_dir(temp_dir)  (lines 231-233, 88-97) *)

\* shutil.rmtree(temp_dir, ignore_errors=True) removes the directory or gives up
Finally ==
    /\ pc = "finally"
    /\ driver' = "quit"
    /\ temp_dir' \in {"removed", "exists"}
    /\ pc' = "done"
    /\ UNCHANGED <<main_vars, page, errors, traversal_vars, process_vars>>

\* driver.quit() raises: cleanup_temp_dir is not reached, the new exception replaces
\* whatever the function was about to return or raise
QuitFails ==
    /\ pc = "finally"
    /\ driver' = "quit_failed"
    /\ errors' = errors \cup {"quit"}
    /\ pc' = "done"
    /\ UNCHANGED <<main_vars, page, temp_dir, traversal_vars, process_vars>>

-----------------------------------------------------------------------------
(* main after check_focus_visibility, lines 510-567 *)

\* an exit status that also reflects the verdict of the report
ExitCodeByVerdict(errs, rep) ==
    IF errs = {} /\ rep.wcag_2_4_7_compliant THEN 0 ELSE 1

\* except Exception: sys.exit(1); otherwise main returns and the status is 0
ExitCode(errs, rep) == IF errs = {} THEN 0 ELSE 1

\* the report is printed and main returns, or the exception is caught (line 565)
MainExits ==
    /\ pc = "done"
    /\ exit_code' = ExitCode(errors, report)
    /\ pc' = "exited"
    /\ UNCHANGED <<argc, page, driver, temp_dir, errors, traversal_vars, process_vars>>

-----------------------------------------------------------------------------
Next ==
    \/ MainUsage
    \/ MainCalls
    \/ MainExits
    \/ SetupFailsBeforeTempDir
    \/ SetupFailsAtBrowserStart
    \/ SetupDriver
    \/ Navigate
    \/ NavigateFails
    \/ TabAppend
    \/ TabCycle
    \/ StepFailsBeforeFocus
    \/ AttributeReadFails
    \/ AfterShotFails
    \/ LoopExit
    \/ AnalyzeBatch
    \/ Categorize
    \/ CategorizeFails
    \/ Finally
    \/ QuitFails

Spec == Init /\ [][Next]_vars

\* every browser and service call returns or raises, so the program always
\* takes its next step
SpecFair == Spec /\ WF_vars(Next)

-----------------------------------------------------------------------------
(* process_focus_results on its own: any sequence of up to MaxProcessRecords
   records; arbitrary replies of the service for up to MaxRecords records *)

Records(n) ==
    [i \in 1..n |-> ElementInfo(i - 1, FreshNode(i), generate_xpath(FreshNode(i)))]

InitProcess ==
    /\ argc = 2
    /\ exit_code = NotExited
    /\ pc = "process"
    /\ page = NoPage
    /\ driver = "live"
    /\ temp_dir = "exists"
    /\ focus_results \in {Records(n) : n \in 0..MaxProcessRecords}
    /\ tab_index = Len(focus_results)
    /\ previously_focused_elements = {}
    /\ element_xpath = ""
    /\ element_signature = ""
    /\ batches = Batches(focus_results)
    /\ batch_idx = 0
    /\ all_analyzed_results = <<>>
    /\ report = NoReport
    /\ errors = {}
    /\ focus_seq = <<>>
    /\ tabs_sent = 0
    /\ after_shots = 0
    /\ locator_failed = FALSE
    /\ calls = <<>>
    /\ service_calls = <<>>
    /\ returned = <<>>

NextProcess ==
    \/ AnalyzeBatch
    \/ Categorize
    \/ CategorizeFails

SpecProcess == InitProcess /\ [][NextProcess]_vars

-----------------------------------------------------------------------------
(* The second source variant ("copy"): process_focus_results and
   analyze_focus_batch of src/unnamed/part_000 *)

\* lines 308-470: client.messages.create (line 437) is outside the try, so a
\* failed request raises as a failed construction does; the decoding of the
\* response text is that of the first variant
analyze_focus_batch_copy(reply) ==
    IF reply.kind \in {"build_error", "service_error"} THEN Raised
    ELSE ParseResponse(reply)

\* result['analysis']['focus_visible'] (line 286) raises when either key is
\* missing or 'analysis' is not a mapping
CategorizeRaisesCopy(all) ==
    \E i \in 1..Len(all) :
        all[i].analysis /= "mapping" \/ all[i].focus_visible = "absent"

\* lines 285-300
MakeReportCopy(all) ==
    LET visible == SelectSeq(all, FocusVisible)
        invisible == SelectSeq(all, LAMBDA e : ~FocusVisible(e))
    IN [made |-> TRUE,
        total_focusable_elements |-> Len(all),
        visible_focus_elements |-> Len(visible),
        invisible_focus_elements |-> Len(invisible),
        visible_elements |-> visible,
        invisible_elements |-> invisible,
        wcag_2_4_7_compliant |-> (Len(invisible) = 0)]

\* lines 275-279: one iteration of the batch loop, with no try/except around
\* the call
AnalyzeBatchCopy ==
    /\ pc = "process"
    /\ batch_idx < Len(batches)
    /\ \E reply \in Replies(batches[batch_idx + 1]) :
         LET r == analyze_focus_batch_copy(reply) IN
           /\ calls' = Append(calls, batch_idx + 1)
           /\ service_calls' = IF ServiceRequested(reply)
                               THEN Append(service_calls, batch_idx + 1)
                               ELSE service_calls
           /\ returned' = Append(returned, r)
           /\ IF r.status = "raise"
              THEN /\ pc' = "finally"
                   /\ errors' = errors \cup {"classification"}
                   /\ UNCHANGED <<batch_idx, all_analyzed_results>>
              ELSE /\ all_analyzed_results' = ExtendResults(all_analyzed_results, r)
                   /\ batch_idx' = batch_idx + 1
                   /\ UNCHANGED <<pc, errors>>
    /\ UNCHANGED <<main_vars, page, driver, temp_dir, traversal_vars, batches, report>>

\* lines 281-302: every result is categorised and the report returned
CategorizeCopy ==
    /\ pc = "process"
    /\ batch_idx = Len(batches)
    /\ ~CategorizeRaisesCopy(all_analyzed_results)
    /\ report' = MakeReportCopy(all_analyzed_results)
    /\ pc' = "finally"
    /\ UNCHANGED <<main_vars, page, driver, temp_dir, errors, traversal_vars, batches,
                   batch_idx, all_analyzed_results, calls, service_calls, returned>>

\* line 286 raises: process_focus_results exits without a report
CategorizeCopyFails ==
    /\ pc = "process"
    /\ batch_idx = Len(batches)
    /\ CategorizeRaisesCopy(all_analyzed_results)
    /\ errors' = errors \cup {"classification"}
    /\ pc' = "finally"
    /\ UNCHANGED <<main_vars, page, driver, temp_dir, traversal_vars, process_vars>>

NextCopy ==
    \/ AnalyzeBatchCopy
    \/ CategorizeCopy
    \/ CategorizeCopyFails

SpecCopy == InitProcess /\ [][NextCopy]_vars

\* the function has returned a report to its caller
Returned == pc = "done" /\ errors = {}

\* the function has exited with an exception
RaisedOut == pc = "done" /\ errors /= {}

-----------------------------------------------------------------------------
(* Properties *)

RECURSIVE Concat(_)
Concat(ss) == IF ss = <<>> THEN <<>> ELSE Head(ss) \o Concat(Tail(ss))

\* C1: in every traversal run, whatever the page focuses on each Tab press, at
\* most 100 Tab key events are dispatched and the records collected, and so the
\* records handed to process_focus_results, number at most 100.
C1_HardCap ==
    /\ tabs_sent <= 100
    /\ Len(focus_results) <= 100
    /\ pc = "process" => Len(Concat(batches)) <= 100

\* a page of ever-fresh signatures has driven the loop to the cap
C1_Witness ==
    /\ pc = "process"
    /\ page = "dynamic"
    /\ tabs_sent = 100
    /\ Len(focus_results) = 100
    /\ Cardinality(previously_focused_elements) = 100

\* the signature the claims speak of: the tuple (tag, id, class, locator)
TupleSignature(e) == <<e.node.tag, e.node.id, e.node.class, e.xpath>>

\* position of the first focused element whose signature repeats an earlier one
\* (0: there is none)
FirstRepeat(seq) ==
    IF Cardinality({TupleSignature(seq[i]) : i \in 1..Len(seq)}) = Len(seq)
    THEN 0
    ELSE LET reps == {k \in 1..Len(seq) :
                        \E j \in 1..(k - 1) :
                            TupleSignature(seq[j]) = TupleSignature(seq[k])}
         IN CHOOSE k \in reps : \A m \in reps : k <= m

\* the records e1..ek of the first k focused elements
RecordsOf(seq, k) ==
    [i \in 1..k |-> ElementInfo(i - 1, seq[i].node, seq[i].xpath)]

\* C2: if ek is the first focused element whose signature (tag, id, class,
\* locator) equals that of an earlier one, the traversal stops at ek, the records
\* are exactly e1..e(k-1) in order, ek is not appended and no "after" capture is
\* taken for it; without a repeat the records handed on are all focused elements.
\* (Stated of the loop and of the moment the records are handed on: nothing
\* later changes the traversal's variables.)
C2_CycleDetection ==
    (pc = "traverse" \/ (pc = "process" /\ calls = <<>>)) =>
        LET k == FirstRepeat(focus_seq) IN
          /\ k /= 0 =>
                /\ k = Len(focus_seq)
                /\ pc = "process"
                /\ focus_results = RecordsOf(focus_seq, k - 1)
                /\ after_shots = k - 1
                /\ tabs_sent = k
          /\ (k = 0 /\ pc = "process") =>
                focus_results = RecordsOf(focus_seq, Len(focus_seq))

\* focus order A, B, C, A: three records, traversal over
C2_Witness ==
    /\ pc = "process"
    /\ Len(focus_seq) = 4
    /\ focus_seq[4] = focus_seq[1]
    /\ Cardinality({focus_seq[i].node : i \in 1..3}) = 3
    /\ Len(focus_results) = 3
    /\ \A i \in 1..3 : focus_results[i].element_xpath = generate_xpath(focus_seq[i].node)

\* C3: for any sequence of N >= 0 records the partition has ceil(N/5) batches, the first floor(N/5)
\* of exactly 5 records, the last of N mod 5 records when 5 does not divide N,
\* no batch empty, and the batches concatenated give back the records in order.
C3_BatchPartition ==
    pc = "process" =>
        LET N == Len(focus_results) IN
          /\ Len(batches) = (N + 4) \div 5
          /\ \A k \in 1..(N \div 5) : Len(batches[k]) = 5
          /\ N % 5 /= 0 => Len(batches[Len(batches)]) = N % 5
          /\ \A k \in 1..Len(batches) : batches[k] /= <<>>
          /\ Concat(batches) = focus_results

\* seven records have been split 5 + 2
C3_Witness ==
    /\ pc = "process"
    /\ Len(focus_results) = 7
    /\ Len(batches) = 2
    /\ Len(batches[1]) = 5
    /\ Len(batches[2]) = 2

\* C4: every report returned by process_focus_results has
\* total_focusable_elements = visible_focus_elements + invisible_focus_elements,
\* also when a decoded element lacks the 'analysis' field.
C4_CountsAddUp ==
    report.made =>
        report.total_focusable_elements =
            report.visible_focus_elements + report.invisible_focus_elements

\* a batch failed: analyze_focus_batch raised or returned None
Failed(r) == r.status \in {"raise", "none"}

\* the decoded results of the batches that did not fail, in batch order
OtherResults ==
    Concat([i \in 1..Len(returned) |->
              IF Failed(returned[i]) THEN <<>> ELSE returned[i].elements])

JudgedVisible(e) == e.analysis = "mapping" /\ e.focus_visible = "true"

JudgedInvisible(e) == e.analysis = "mapping" /\ e.focus_visible /= "true"

Unreadable(e) == e.analysis = "scalar"

CountOf(seq, P(_)) == Cardinality({i \in 1..Len(seq) : P(seq[i])})

\* C5: a batch whose classification call raises, or whose response yields no
\* 'elements' list, contributes nothing; the later batches are still
\* classified; a report is still returned and its total, visible and invisible
\* counts are those of the other batches alone. (The run ends without a report
\* only when another batch returned an element whose 'analysis' cannot be read.)
C5_FailedBatchSkipped ==
    /\ all_analyzed_results = OtherResults
    /\ pc = "process" => Len(returned) = batch_idx
    /\ pc = "finally" =>
         /\ Len(returned) = Len(batches)
         /\ IF CountOf(OtherResults, Unreadable) > 0
            THEN ~report.made /\ errors = {"classification"}
            ELSE /\ report.made
                 /\ errors = {}
                 /\ report.total_focusable_elements = Len(OtherResults)
                 /\ report.visible_focus_elements = CountOf(OtherResults, JudgedVisible)
                 /\ report.invisible_focus_elements =
                        CountOf(OtherResults, JudgedInvisible)

\* the first batch's call raised, the second batch was classified and counted
C5_Witness ==
    /\ pc = "finally"
    /\ report.made
    /\ Len(returned) = 2
    /\ returned[1].status = "raise"
    /\ returned[2].status = "list"
    /\ Len(returned[2].elements) = 2
    /\ report.total_focusable_elements = 2
    /\ report.visible_focus_elements = 1
    /\ report.invisible_focus_elements = 1

\* C6: when a batch response decodes to one element with the 'analysis' field
\* and one without it, the report counts exactly one result: the incomplete
\* element is in neither list and not in total_focusable_elements, and the
\* well-formed sibling is classified as it would be alone.
C6_PerElementFiltering ==
    (/\ report.made
     /\ Len(returned) = 1
     /\ returned[1].status = "list"
     /\ Len(returned[1].elements) = 2
     /\ CountOf(returned[1].elements, LAMBDA e : e.analysis = "absent") = 1
     /\ CountOf(returned[1].elements, LAMBDA e : e.analysis = "mapping") = 1)
    =>
    LET sibling == CHOOSE e \in {returned[1].elements[i] : i \in 1..2} :
                       e.analysis = "mapping"
    IN /\ report.total_focusable_elements = 1
       /\ report.visible_elements =
              (IF JudgedVisible(sibling) THEN <<sibling>> ELSE <<>>)
       /\ report.invisible_elements =
              (IF JudgedVisible(sibling) THEN <<>> ELSE <<sibling>>)

\* C7: on every exit path of check_focus_visibility a browser session that
\* was started has been quit and a temporary profile directory that was
\* created has been removed.
C7_SessionReleased ==
    pc = "done" =>
        /\ driver \in {"none", "quit"}
        /\ temp_dir \in {"none", "removed"}

\* the joined signature of a node whose locator is the sentinel
SentinelSignature(n) == n.tag \o "_" \o n.id \o "_" \o n.class \o "_Unknown"

\* C8: a step whose locator resolution fails gets the locator "Unknown", raises
\* nothing on that account, and goes on as any step does: signature, cycle
\* check, then either the end of the traversal (repeat) or the append.
C8_LocatorSentinelStep ==
    (locator_failed' /\ Len(focus_seq') = Len(focus_seq) + 1) =>
        LET n == focus_seq'[Len(focus_seq')].node IN
          /\ element_xpath' = "Unknown"
          /\ focus_seq'[Len(focus_seq')].xpath = "Unknown"
          /\ element_signature' = SentinelSignature(n)
          /\ IF SentinelSignature(n) \in previously_focused_elements
             THEN /\ pc' = "process"
                  /\ errors' = errors
                  /\ focus_results' = focus_results
                  /\ after_shots' = after_shots
             ELSE /\ SentinelSignature(n) \in previously_focused_elements'
                  /\ \/ /\ pc' = "traverse"
                        /\ errors' = errors
                        /\ focus_results' =
                               Append(focus_results,
                                      [tab_index |-> tab_index, element_tag |-> n.tag,
                                       element_id |-> n.id, element_class |-> n.class,
                                       element_xpath |-> "Unknown"])
                        /\ tab_index' = tab_index + 1
                        /\ after_shots' = after_shots + 1
                     \/ /\ pc' = "finally"      \* the "after" screenshot raised
                        /\ errors' = errors \cup {"traversal"}
                        /\ focus_results' = focus_results

C8_LocatorSentinel == [][C8_LocatorSentinelStep]_vars

\* after a step with a resolved locator, a step with a failed one was recorded
C8_Witness ==
    /\ pc = "traverse"
    /\ locator_failed
    /\ Len(focus_results) = 2
    /\ focus_results[1].element_xpath /= "Unknown"
    /\ focus_results[2].element_xpath = "Unknown"
    /\ tab_index = 2

\* C9: if reading an attribute of the focused node fails at any step,
\* check_focus_visibility raises: no report is produced, the records of the
\* earlier steps never reach process_focus_results and the classification
\* service is never called.
C9_AttributeFailureFatal ==
    "attribute" \in errors =>
        /\ pc \in {"finally", "done", "exited"}
        /\ ~report.made
        /\ batches = <<>>
        /\ calls = <<>>
        /\ service_calls = <<>>
        /\ all_analyzed_results = <<>>

\* the failure came after two records had been collected; the run has ended
C9_Witness ==
    /\ pc = "done"
    /\ "attribute" \in errors
    /\ Len(focus_results) = 2
    /\ tabs_sent = 3
    /\ ~report.made

\* C10 as stated: the classification service is invoked exactly once per
\* batch, in batch order, whatever the earlier batches did.
C10_ServiceOncePerBatch ==
    pc = "finally" => service_calls = [k \in 1..Len(batches) |-> k]

\* the batches whose classification call did not raise before the request
RequestedBatches ==
    SelectSeq([k \in 1..Len(returned) |-> k], LAMBDA k : returned[k].status /= "raise")

\* C10 amended: analyze_focus_batch is invoked exactly once per batch, in batch
\* order, never again for a failed batch and with no batch left out; the
\* service is requested once for each batch whose call did not raise before
\* the request, in the same order, and not at all for the others.
C10_OneCallPerBatch ==
    /\ calls = [k \in 1..Len(calls) |-> k]
    /\ Len(returned) = Len(calls)
    /\ pc = "process" => Len(calls) = batch_idx
    /\ pc = "finally" => Len(calls) = Len(batches)
    /\ service_calls = RequestedBatches

\* two batches: the first call raised before the request, the second was made
C10_Witness ==
    /\ pc = "finally"
    /\ Len(batches) = 2
    /\ calls = <<1, 2>>
    /\ returned[1].status = "raise"
    /\ returned[2].status = "none"
    /\ service_calls = <<2>>

\* a batch for which the service judged n elements, all of them visible
AllJudgedVisible(r, n) ==
    /\ r.status = "list"
    /\ Len(r.elements) = n
    /\ \A i \in 1..n : JudgedVisible(r.elements[i])

\* the counts and the verdict of a report
Counts(rep) ==
    <<rep.total_focusable_elements, rep.visible_focus_elements,
      rep.invisible_focus_elements, rep.wcag_2_4_7_compliant>>

\* C11: in every report wcag_2_4_7_compliant is true exactly when
\* invisible_focus_elements is 0; 7 records split 5 + 2 with all 7 judged
\* visible give total 7, visible 7, invisible 0, compliant; the same run with
\* the second batch's call failing gives total 5, visible 5, invisible 0,
\* compliant.
C11_CompliantIffNoneInvisible ==
    report.made =>
        /\ report.wcag_2_4_7_compliant <=> (report.invisible_focus_elements = 0)
        /\ report.invisible_focus_elements = Len(report.invisible_elements)
        /\ Len(focus_results) = 7 /\ AllJudgedVisible(returned[1], 5) =>
             /\ AllJudgedVisible(returned[2], 2) => Counts(report) = <<7, 7, 0, TRUE>>
             /\ Failed(returned[2]) => Counts(report) = <<5, 5, 0, TRUE>>

\* seven records, the first batch judged visible, the second batch's call failed
C11_Witness ==
    /\ report.made
    /\ Len(focus_results) = 7
    /\ AllJudgedVisible(returned[1], 5)
    /\ Failed(returned[2])
    /\ Counts(report) = <<5, 5, 0, TRUE>>

\* C12: the process exits with code 1 when the argument count is wrong or an
\* error propagates out of check_focus_visibility (setup, traversal or any
\* other uncontained failure), and with code 0 in every other case, also when
\* the report is non-compliant or batches were skipped; before that it has no
\* exit code.
C12_ExitCodes ==
    IF pc = "exited"
    THEN /\ exit_code = 1 <=> (argc /= 2 \/ errors /= {})
         /\ exit_code = 0 <=> (argc = 2 /\ errors = {})
         /\ exit_code = 0 => report.made
    ELSE exit_code = NotExited

\* a run that skipped a batch and reported a page as non-compliant exited with 0
C12_Witness ==
    /\ pc = "exited"
    /\ exit_code = 0
    /\ report.made
    /\ ~report.wcag_2_4_7_compliant
    /\ \E i \in 1..Len(returned) : Failed(returned[i])

\* C13: at every point of the traversal loop, and in every later state of the
\* run, the record at position i of focus_results (counted from 0) has
\* tab_index = i, so the indices start at 0, grow by exactly 1 per appended
\* record and are never reused; the step counter equals the number of records
\* appended so far.
C13_IndexIsPosition ==
    /\ tab_index = Len(focus_results)
    /\ \A i \in 1..Len(focus_results) : focus_results[i].tab_index = i - 1

\* the loop is running and has appended three records
C13_Witness ==
    /\ pc = "traverse"
    /\ tab_index = 3
    /\ Len(focus_results) = 3
    /\ focus_results[3].tab_index = 2
    /\ tabs_sent = 3

\* the second focused element has the signature of the first
ImmediateCycle ==
    /\ Len(focus_seq) >= 2
    /\ TupleSignature(focus_seq[1]) = TupleSignature(focus_seq[2])

\* every Tab press so far left focus on one and the same node
FocusNeverMoved ==
    /\ focus_seq /= <<>>
    /\ \A i \in 1..Len(focus_seq) : focus_seq[i].node = focus_seq[1].node

\* C14 as stated: when the page has no focusable elements (every Tab press
\* leaves focus on the same node) or its focus order cycles immediately, the
\* traversal returns an empty sequence of records.
C14_EmptyTraversal ==
    (pc = "process" /\ (FocusNeverMoved \/ ImmediateCycle)) => focus_results = <<>>

\* C14 amended: the traversal never hands on an empty sequence. The element
\* focused by the first Tab press is always recorded; when the second focused
\* element has the same signature the records are exactly that one element,
\* and a page on which focus never moves yields one record, or two when
\* locator resolution failed in one of the first two steps and not the other.
C14_FirstElementRecorded ==
    pc = "process" =>
        /\ focus_results /= <<>>
        /\ batches /= <<>>
        /\ focus_results[1] = RecordsOf(focus_seq, 1)[1]
        /\ ImmediateCycle => focus_results = RecordsOf(focus_seq, 1)
        /\ FocusNeverMoved =>
             /\ Len(focus_results) <= 2
             /\ \A i \in 1..Len(focus_results) :
                   focus_results[i].element_tag = focus_seq[1].node.tag

\* a page with nothing to focus: the body was recorded once, the second Tab
\* press ended the traversal
C14_Witness ==
    /\ pc = "process"
    /\ page = "empty"
    /\ FocusNeverMoved
    /\ ImmediateCycle
    /\ tabs_sent = 2
    /\ Len(focus_results) = 1
    /\ focus_results[1].element_tag = "BODY"

\* the list a batch yielded has an entry without the 'analysis' field
LacksJudgement(r) ==
    r.status = "list" /\ \E i \in 1..Len(r.elements) : r.elements[i].analysis = "absent"

HasJudgement(e) == e.analysis /= "absent"

\* C15 as stated: analyze_focus_batch accepts a decoded response only if every
\* result in it contains the 'analysis' field; when any result lacks it the
\* whole batch is discarded and contributes nothing to the aggregate.
C15_BatchDiscarded ==
    /\ \A i \in 1..Len(returned) : ~LacksJudgement(returned[i])
    /\ all_analyzed_results =
         Concat([i \in 1..Len(returned) |->
                   IF LacksJudgement(returned[i]) THEN <<>> ELSE returned[i].elements])

\* C15 amended: analyze_focus_batch returns the decoded 'elements' list as it
\* is, without looking at its entries; every entry of every returned list
\* enters the aggregate, and the 'analysis' field is tested per element by the
\* categorisation: an entry without it is left out of both lists while the
\* other entries of the same batch are classified.
C15_JudgementCheckedPerElement ==
    /\ \A es \in SeqsUpTo(ElemShapes, MaxRespLen) :
           analyze_focus_batch(ElementsReply(es)) = ReturnedList(es)
    /\ all_analyzed_results =
         Concat([i \in 1..Len(returned) |-> returned[i].elements])
    /\ report.made =>
         /\ report.visible_elements \o report.invisible_elements \in
                Seq({e \in ElemShapes : HasJudgement(e)})
         /\ Len(report.visible_elements) + Len(report.invisible_elements) =
                CountOf(all_analyzed_results, HasJudgement)

\* one batch answered with a judged element and one without 'analysis': the
\* judged one is in the report
C15_Witness ==
    /\ report.made
    /\ Len(returned) = 1
    /\ returned[1] = ReturnedList(<<Elem("mapping", "true"), Elem("absent", "absent")>>)
    /\ report.visible_elements = <<Elem("mapping", "true")>>
    /\ report.invisible_elements = <<>>

\* the report that the records' outcomes determine
ReportOf(outcomes) ==
    MakeReport(Concat([i \in 1..Len(outcomes) |-> outcomes[i].elements]))

\* C16: process_focus_results leaves its inputs unchanged: no step of it,
\* whether the batch succeeds or fails, changes the focus_results sequence or
\* a record in it, nor the batches cut from it; and the report it returns is
\* determined by the sequence of batch outcomes alone, so two calls with the
\* same records and the same outcomes return equal reports.
C16_InputsUnchangedStep ==
    /\ focus_results' = focus_results
    /\ batches' = batches
    /\ Concat(batches') = focus_results'
    /\ report'.made => report' = ReportOf(returned')

ReleaseStepExecuted == driver \in {"quit", "quit_failed"}

\* the traversal loop ran at most 100 times and, once process_focus_results
\* is past its batch loop, that loop ran exactly ceil(N/5) times
LoopBounds ==
    /\ tabs_sent <= 100
    /\ tab_index <= 100
    /\ (report.made \/ "classification" \in errors) =>
           Len(calls) = (Len(focus_results) + 4) \div 5

\* every run of check_focus_visibility ends, within the loop bounds, and with
\* the release step executed if the browser session was started
RunTerminates ==
    /\ [](LoopBounds /\ (pc = "done" /\ driver /= "none" => ReleaseStepExecuted))
    /\ (pc = "setup") ~> (pc = "done")

\* C17: every run of check_focus_visibility eventually reaches a terminal
\* state (report returned or error raised) with the session-release step
\* executed; the traversal loop runs at most 100 iterations and the batch loop
\* exactly ceil(N/5) iterations.
C17_TerminatesReleased ==
    /\ [](LoopBounds /\ (pc = "done" => ReleaseStepExecuted))
    /\ (pc = "setup") ~> (pc = "done")

\* the traversal has just been ended by the repeat test (line 200), before
\* the cap: the last focused element was not recorded
EndedByRepeat ==
    /\ pc = "process"
    /\ calls = <<>>
    /\ Len(focus_seq) = Len(focus_results) + 1

\* C18: the traversal ends before the 100-step cap only when focus has
\* returned to a node that was focused at an earlier step; two different DOM
\* nodes are never treated as a repeat, also when locator resolution failed
\* for both and they share tag, id and class.
C18_RepeatIsSameNode ==
    EndedByRepeat =>
        \E j \in 1..(Len(focus_seq) - 1) :
            focus_seq[j].node = focus_seq[Len(focus_seq)].node

\* C19: each batch contributes at most as many results to the aggregate as it
\* has records, so total_focusable_elements never exceeds the number of
\* records the traversal produced, whatever the service returns.
C19_TotalBoundedByRecords ==
    /\ \A i \in 1..Len(returned) : Len(returned[i].elements) <= Len(batches[i])
    /\ Len(all_analyzed_results) <= Len(focus_results)
    /\ report.made => report.total_focusable_elements <= Len(focus_results)

\* a handled batch failed in one of the ways the orchestrator is to contain:
\* its call raised, or its response lacks 'analysis' for some element
BatchFailureSeen ==
    \E i \in 1..Len(returned) :
        returned[i].status = "raise" \/ LacksJudgement(returned[i])

\* the entries of the returned lists that carry a judgement
JudgedResults ==
    SelectSeq(Concat([i \in 1..Len(returned) |-> returned[i].elements]), HasJudgement)

\* C20: in the second source variant a batch whose classification call raises,
\* or whose response lacks the judgement field for some element, does not abort
\* the run: process_focus_results still returns a report, built from the
\* other batches.
C20_CopyContainsBatchFailure ==
    BatchFailureSeen =>
        /\ "classification" \notin errors
        /\ pc = "finally" =>
             /\ report.made
             /\ Len(returned) = Len(batches)
             /\ report.visible_focus_elements + report.invisible_focus_elements
                    = Len(JudgedResults)

\* the signature string of a record: tag_id_class_xpath
RecordSignature(r) ==
    r.element_tag \o "_" \o r.element_id \o "_" \o r.element_class \o "_"
        \o r.element_xpath

\* the traversal loop is at the head of an iteration, or has just handed its
\* records on
AtLoopPoint == pc = "traverse" \/ (pc = "process" /\ calls = <<>>)

\* C21: at every point of the traversal loop the records in focus_results
\* have pairwise distinct signatures (tag_id_class_xpath strings), the seen
\* set previously_focused_elements holds exactly the signatures of the
\* appended records, and its size equals tab_index.
C21_SeenSetIsRecordSignatures ==
    AtLoopPoint =>
        LET sigs == {RecordSignature(focus_results[i]) : i \in 1..Len(focus_results)}
        IN /\ Cardinality(sigs) = Len(focus_results)
           /\ previously_focused_elements = sigs
           /\ Cardinality(previously_focused_elements) = tab_index

\* the loop is running with three records, one of them with a failed locator
C21_Witness ==
    /\ pc = "traverse"
    /\ tab_index = 3
    /\ Cardinality(previously_focused_elements) = 3
    /\ \E i \in 1..3 : focus_results[i].element_xpath = "Unknown"
    /\ \A i \in 1..3 : RecordSignature(focus_results[i]) \in previously_focused_elements

\* an entry with the 'analysis' field but without a truthy 'focus_visible'
NoTruthyVerdict(e) == e.analysis = "mapping" /\ e.focus_visible \in {"absent", "false"}

\* C22: in process_focus_results an element that has the 'analysis' field but
\* no 'focus_visible' key in it, or a falsy one, is counted as invisible, so a
\* single such element makes the report non-compliant; an element is counted
\* as visible only when analysis.focus_visible is present and truthy.
C22_MissingVerdictIsInvisible ==
    report.made =>
        /\ report.invisible_elements = SelectSeq(all_analyzed_results, NoTruthyVerdict)
        /\ \A i \in 1..Len(report.visible_elements) :
               /\ report.visible_elements[i].analysis = "mapping"
               /\ report.visible_elements[i].focus_visible = "true"
        /\ (\E i \in 1..Len(all_analyzed_results) :
                NoTruthyVerdict(all_analyzed_results[i]))
             => /\ ~report.wcag_2_4_7_compliant
                /\ report.invisible_focus_elements >= 1

\* a judged-visible element and one whose 'analysis' has no 'focus_visible':
\* the second is reported invisible and the page non-compliant
C22_Witness ==
    /\ report.made
    /\ all_analyzed_results = <<Elem("mapping", "true"), Elem("mapping", "absent")>>
    /\ report.visible_elements = <<Elem("mapping", "true")>>
    /\ report.invisible_elements = <<Elem("mapping", "absent")>>
    /\ ~report.wcag_2_4_7_compliant

====
